---------------------------- MODULE Spec2Model ----------------------------
(***************************************************************************)
(* Elector name duplicate finder (imatta/ENCTool).                         *)
(*                                                                         *)
(* A model of ElectorNameComparator (src/elector_name_comparison.py) and   *)
(* of its two callers, the command-line main() and the Flask handler      *)
(* upload_file() (src/app.py).                                             *)
(*                                                                         *)
(* Representation                                                          *)
(*  - a Python str is a sequence of one-character strings;                 *)
(*  - a spreadsheet cell is a record [isna, text]: isna is pandas' missing *)
(*    value (NaN), text is str(value) of a value that is present;          *)
(*  - an Optional value is <<>> (None) or <<v>>;                           *)
(*  - positions and DataFrame index labels are 0-based, as in the source;  *)
(*  - a similarity score is an integer number of 1/ScoreUnit percent, so   *)
(*    that the float rapidfuzz returns is represented exactly.             *)
(***************************************************************************)
EXTENDS Integers, Sequences, FiniteSets, TLC

(***************************************************************************)
(* Python str primitives used by the source                                *)
(***************************************************************************)
Whitespace == {" ", "\t"}

UpperCase == <<"A", "B", "C", "D", "E", "F", "G", "H", "I", "J", "K", "L", "M",
               "N", "O", "P", "Q", "R", "S", "T", "U", "V", "W", "X", "Y", "Z">>

LowerCase == <<"a", "b", "c", "d", "e", "f", "g", "h", "i", "j", "k", "l", "m",
               "n", "o", "p", "q", "r", "s", "t", "u", "v", "w", "x", "y", "z">>

\* The characters of the model in code point order (str comparison, sorted()).
CodePoints == <<"\t", " ", "'", "(", ")", "+", "-", ".">>
              \o <<"0", "1", "2", "3", "4", "5", "6", "7", "8", "9">>
              \o UpperCase \o LowerCase

ord(c) == CHOOSE i \in 1..Len(CodePoints) : CodePoints[i] = c

lower_char(c) ==
    IF \E i \in 1..Len(UpperCase) : UpperCase[i] = c
    THEN LowerCase[CHOOSE i \in 1..Len(UpperCase) : UpperCase[i] = c]
    ELSE c

\* str.lower()
lower(s) == [i \in 1..Len(s) |-> lower_char(s[i])]

RECURSIVE lstrip(_)
lstrip(s) == IF s # <<>> /\ Head(s) \in Whitespace THEN lstrip(Tail(s)) ELSE s

RECURSIVE rstrip(_)
rstrip(s) ==
    IF s # <<>> /\ s[Len(s)] \in Whitespace
    THEN rstrip(SubSeq(s, 1, Len(s) - 1))
    ELSE s

\* str.strip()
strip(s) == rstrip(lstrip(s))

\* str.split(): the maximal runs of non-whitespace characters, in order.
RECURSIVE split_from(_, _, _)
split_from(s, i, word) ==
    IF i > Len(s)
    THEN IF word = <<>> THEN <<>> ELSE <<word>>
    ELSE IF s[i] \in Whitespace
         THEN IF word = <<>>
              THEN split_from(s, i + 1, <<>>)
              ELSE <<word>> \o split_from(s, i + 1, <<>>)
         ELSE split_from(s, i + 1, Append(word, s[i]))

split(s) == split_from(s, 1, <<>>)

\* ' '.join(words)
RECURSIVE join(_)
join(words) ==
    IF words = <<>> THEN <<>>
    ELSE IF Len(words) = 1 THEN words[1]
    ELSE words[1] \o <<" ">> \o join(Tail(words))

\* s.endswith(suffix)
endswith(s, suffix) ==
    /\ Len(suffix) <= Len(s)
    /\ SubSeq(s, Len(s) - Len(suffix) + 1, Len(s)) = suffix

\* s < t for two str (lexicographic by code point)
RECURSIVE str_less(_, _)
str_less(s, t) ==
    IF t = <<>> THEN FALSE
    ELSE IF s = <<>> THEN TRUE
    ELSE IF s[1] = t[1] THEN str_less(Tail(s), Tail(t))
    ELSE ord(s[1]) < ord(t[1])

(***************************************************************************)
(* Cells                                                                   *)
(***************************************************************************)
NaN == [isna |-> TRUE, text |-> <<>>]

Cell(s) == [isna |-> FALSE, text |-> s]

(***************************************************************************)
(* normalize_name                                                          *)
(***************************************************************************)
normalize_name(name) ==
    IF name.isna
    THEN <<>>
    ELSE join(split(lower(strip(name.text))))


(***************************************************************************)
(* The module's state                                                      *)
(***************************************************************************)
VARIABLES
    RAPIDFUZZ_AVAILABLE,   \* which fuzz library the import found (l. 19-25)
    entry,                 \* who built the comparator: "api", "main", "upload_file"
    threshold_input,       \* the threshold text the caller was given
    excel_path,            \* the workbook self.excel_path names
    similarity_threshold,  \* self.similarity_threshold
    df_2025,               \* self.df_2025: <<>> (None) or <<DataFrame>>
    df_2002,               \* self.df_2002
    primary_key_column,    \* self.primary_key_column: <<>> (None) or <<name>>
    duplicates,            \* self.duplicates
    stats,                 \* self.stats
    pc,                    \* the position of the caller's thread
    load_result,           \* what the last load_excel_sheets returned: <<>> or <<bool>>
    runs,                  \* completed calls of compare_names
    loop,                  \* compare_names' locals while it runs
    exported,              \* the tables export_results last wrote: <<>> or <<tables>>
    query,                 \* find_best_match's arguments and result (SpecSearch)
    found

vars == <<RAPIDFUZZ_AVAILABLE, entry, threshold_input, excel_path,
          similarity_threshold, df_2025, df_2002, primary_key_column,
          duplicates, stats, pc, load_result, runs, loop, exported,
          query, found>>

(***************************************************************************)
(* calculate_similarity: fuzz.token_sort_ratio                             *)
(***************************************************************************)
\* One percent, in score units: a multiple of every len(s1) + len(s2) up to 10.
ScoreUnit == 5 * 7 * 8 * 9

Max(a, b) == IF a >= b THEN a ELSE b

Min(a, b) == IF a <= b THEN a ELSE b

\* sorted(tokens): insertion of each token before the first greater one.
RECURSIVE insert_sorted(_, _)
insert_sorted(tok, sorted) ==
    IF sorted = <<>> THEN <<tok>>
    ELSE IF str_less(tok, Head(sorted)) THEN <<tok>> \o sorted
    ELSE <<Head(sorted)>> \o insert_sorted(tok, Tail(sorted))

RECURSIVE sort_tokens(_)
sort_tokens(tokens) ==
    IF tokens = <<>> THEN <<>>
    ELSE insert_sorted(tokens[Len(tokens)],
                       sort_tokens(SubSeq(tokens, 1, Len(tokens) - 1)))

\* token_sort without the sort.
token_sort_unsorted(s) == join(split(s))

\* The token-sorted form token_sort_ratio compares.
token_sort(s) == join(sort_tokens(split(s)))

\* Length of the longest common subsequence of s and t.
lcs_len(s, t) ==
    LET f[i \in 0..Len(s), j \in 0..Len(t)] ==
            IF i = 0 \/ j = 0 THEN 0
            ELSE IF s[i] = t[j] THEN f[i - 1, j - 1] + 1
            ELSE Max(f[i - 1, j], f[i, j - 1])
    IN  f[Len(s), Len(t)]

\* int(round(x)) for x = num / den >= 0, halves to the even neighbour.
round_half_even(num, den) ==
    LET q == num \div den
        r == num % den
    IN  IF 2 * r < den THEN q
        ELSE IF 2 * r > den THEN q + 1
        ELSE IF q % 2 = 0 THEN q ELSE q + 1

\* The normalized indel similarity of s and t, in percent:
\* 100 * 2 * lcs / (len(s) + len(t)); 100 for two empty strings.
\* rapidfuzz returns the float, fuzzywuzzy the rounded int.
ratio(s, t) ==
    LET lensum == Len(s) + Len(t)
    IN  IF lensum = 0 THEN 100 * ScoreUnit
        ELSE IF RAPIDFUZZ_AVAILABLE
             THEN (200 * lcs_len(s, t) * ScoreUnit) \div lensum
             ELSE round_half_even(200 * lcs_len(s, t), lensum) * ScoreUnit

token_sort_ratio(s1, s2) == ratio(token_sort(s1), token_sort(s2))

calculate_similarity(name1, name2) ==
    IF name1 = <<>> \/ name2 = <<>>
    THEN 0
    ELSE token_sort_ratio(name1, name2)

(***************************************************************************)
(* find_best_match                                                         *)
(***************************************************************************)
\* The loop of l. 245-249 over zip(candidate_indices, candidate_names) from
\* position k on, with the best (index, score) so far.
RECURSIVE best_scan(_, _, _, _, _)
best_scan(target_name, candidate_names, candidate_indices, k, best) ==
    IF k > Min(Len(candidate_names), Len(candidate_indices))
    THEN best
    ELSE LET score == calculate_similarity(target_name, candidate_names[k])
         IN  best_scan(target_name, candidate_names, candidate_indices, k + 1,
                       IF score > best.score
                       THEN [index |-> <<candidate_indices[k]>>, score |-> score]
                       ELSE best)

\* find_best_match with score >= best_score: the last maximum wins.
RECURSIVE best_scan_last(_, _, _, _, _)
best_scan_last(target_name, candidate_names, candidate_indices, k, best) ==
    IF k > Min(Len(candidate_names), Len(candidate_indices))
    THEN best
    ELSE LET score == calculate_similarity(target_name, candidate_names[k])
         IN  best_scan_last(target_name, candidate_names, candidate_indices, k + 1,
                            IF score >= best.score /\ score > 0
                            THEN [index |-> <<candidate_indices[k]>>, score |-> score]
                            ELSE best)

find_best_match_last(target_name, candidate_names, candidate_indices) ==
    IF target_name = <<>> \/ candidate_names = <<>>
    THEN [index |-> <<>>, score |-> 0]
    ELSE best_scan_last(target_name, candidate_names, candidate_indices, 1,
                        [index |-> <<>>, score |-> 0])

find_best_match(target_name, candidate_names, candidate_indices) ==
    IF target_name = <<>> \/ candidate_names = <<>>
    THEN [index |-> <<>>, score |-> 0]
    ELSE best_scan(target_name, candidate_names, candidate_indices, 1,
                   [index |-> <<>>, score |-> 0])

\* list(range(n))
range(n) == [k \in 1..n |-> k - 1]


(***************************************************************************)
(* Workbooks and DataFrames                                                *)
(*                                                                         *)
(* A sheet is [columns, rows]: the column names in order and, per row, a   *)
(* function from column name to cell.  A DataFrame adds the index: the     *)
(* label of each row (read_excel numbers them 0, 1, ...; dropna keeps the  *)
(* labels of the rows it keeps).                                           *)
(***************************************************************************)
Range(seq) == {seq[k] : k \in 1..Len(seq)}

ElectorsName == <<"E", "l", "e", "c", "t", "o", "r", "'", "s", " ", "N", "a", "m", "e">>

ElectorsNameVernacular ==
    <<"E", "l", "e", "c", "t", "o", "r", "'", "s", " ", "N", "a", "m", "e", "(", "V", "e", "r", "n", "a", "c", "u", "l", "a", "r", ")">>

required_cols == <<ElectorsName, ElectorsNameVernacular>>

\* pd.read_excel(path, sheet_name=...)
read_excel(sheet) ==
    [columns |-> sheet.columns,
     index   |-> range(Len(sheet.rows)),
     rows    |-> sheet.rows]

\* The positions of the rows dropna(subset=subset, how='all') keeps.
RECURSIVE kept_positions(_, _, _)
kept_positions(df, subset, k) ==
    IF k > Len(df.rows) THEN <<>>
    ELSE IF \A c \in Range(subset) : df.rows[k][c].isna
         THEN kept_positions(df, subset, k + 1)
         ELSE <<k>> \o kept_positions(df, subset, k + 1)

\* df.dropna(subset=subset, how='all')
dropna(df, subset) ==
    LET keep == kept_positions(df, subset, 1)
    IN  [columns |-> df.columns,
         index   |-> [k \in 1..Len(keep) |-> df.index[keep[k]]],
         rows    |-> [k \in 1..Len(keep) |-> df.rows[keep[k]]]]

\* df[col].notna().sum()
notna_sum(df, col) == Cardinality({k \in 1..Len(df.rows) : ~df.rows[k][col].isna})

(***************************************************************************)
(* _detect_primary_key_column                                              *)
(***************************************************************************)
primary_key_patterns == <<
    <<"i", "d">>,
    <<"I", "D">>,
    <<"I", "d">>,
    <<"s", "e", "r", "i", "a", "l", " ", "n", "u", "m", "b", "e", "r">>,
    <<"S", "e", "r", "i", "a", "l", " ", "N", "u", "m", "b", "e", "r">>,
    <<"S", "E", "R", "I", "A", "L", " ", "N", "U", "M", "B", "E", "R">>,
    <<"s", ".", "n", "o">>,
    <<"S", ".", "N", "o">>,
    <<"S", ".", "N", "O">>,
    <<"S", ".", "N", "o", ".">>,
    <<"s", "n", "o">>,
    <<"S", "N", "O">>,
    <<"S", "N", "o">>,
    <<"s", "l", " ", "n", "o">>,
    <<"S", "L", " ", "N", "o">>,
    <<"S", "L", " ", "N", "O">>,
    <<"s", "l", "n", "o">>,
    <<"S", "L", "N", "O">>,
    <<"e", "l", "e", "c", "t", "o", "r", " ", "i", "d">>,
    <<"E", "l", "e", "c", "t", "o", "r", " ", "I", "D">>,
    <<"E", "L", "E", "C", "T", "O", "R", " ", "I", "D">>,
    <<"v", "o", "t", "e", "r", " ", "i", "d">>,
    <<"V", "o", "t", "e", "r", " ", "I", "D">>,
    <<"V", "O", "T", "E", "R", " ", "I", "D">>,
    <<"e", "p", "i", "c", " ", "n", "o">>,
    <<"E", "P", "I", "C", " ", "N", "o">>,
    <<"E", "P", "I", "C", " ", "N", "O">>,
    <<"e", "p", "i", "c">>,
    <<"E", "P", "I", "C">>>>

\* l. 167: pattern.lower(), for each pattern.
patterns_lower ==
    [p \in 1..Len(primary_key_patterns) |-> lower(primary_key_patterns[p])]

\* l. 164-167: the column's name matches some pattern.
matches_pattern(col) ==
    \E col_lower \in {lower(strip(col))} :
        \E p \in 1..Len(patterns_lower) :
            \/ col_lower = patterns_lower[p]
            \/ endswith(col_lower, patterns_lower[p])

\* l. 173: non_null_2025 > len(self.df_2025) * 0.8
mostly_non_null(non_null, length) == 10 * non_null > 8 * length

\* l. 167-174: the tests a column passes to be returned.
is_primary_key(d25, d02, col) ==
    /\ matches_pattern(col)
    /\ col \in Range(d02.columns)
    /\ mostly_non_null(notna_sum(d25, col), Len(d25.rows))

\* The loop of l. 163 from column k on.
RECURSIVE detect_from(_, _, _)
detect_from(d25, d02, k) ==
    IF k > Len(d25.columns) THEN <<>>
    ELSE IF is_primary_key(d25, d02, d25.columns[k]) THEN <<d25.columns[k]>>
    ELSE detect_from(d25, d02, k + 1)

detect_primary_key_column(d25, d02) == detect_from(d25, d02, 1)

(***************************************************************************)
(* load_excel_sheets                                                       *)
(*                                                                         *)
(* A workbook is [exists, sheets]: whether the path names a file and the   *)
(* sheets of the file by name.  The result is the return value and the     *)
(* fields of the comparator as the call leaves them.                       *)
(***************************************************************************)
load_excel_sheets(book, self) ==
    IF ~book.exists
    THEN \* l. 134-136: FileNotFoundError
         [self EXCEPT !.ok = FALSE]
    ELSE IF "2025_LIST" \notin DOMAIN book.sheets
    THEN [self EXCEPT !.ok = FALSE]
    ELSE IF "2002_LIST" \notin DOMAIN book.sheets
    THEN [self EXCEPT !.ok = FALSE]
    ELSE LET raw_2025 == read_excel(book.sheets["2025_LIST"])
             raw_2002 == read_excel(book.sheets["2002_LIST"])
         IN  IF \E k \in 1..Len(required_cols) :
                    \/ required_cols[k] \notin Range(raw_2025.columns)
                    \/ required_cols[k] \notin Range(raw_2002.columns)
             THEN \* l. 107-113, after the assignments of l. 98-99
                  [self EXCEPT !.ok = FALSE,
                               !.df_2025 = <<raw_2025>>,
                               !.df_2002 = <<raw_2002>>]
             ELSE LET d25 == dropna(raw_2025, required_cols)
                      d02 == dropna(raw_2002, required_cols)
                  IN  [ok |-> TRUE,
                       df_2025 |-> <<d25>>,
                       df_2002 |-> <<d02>>,
                       primary_key_column |-> detect_primary_key_column(d25, d02),
                       stats |-> [self.stats EXCEPT !.total_2025 = Len(d25.rows),
                                                    !.total_2002 = Len(d02.rows)]]


(***************************************************************************)
(* compare_names                                                           *)
(***************************************************************************)
\* l. 270-282: the normalized names of one column of a DataFrame, in row order.
names_of(df, col) == [k \in 1..Len(df.rows) |-> normalize_name(df.rows[k][col])]

\* take_better where an equal score replaces too.
take_better_on_tie(best, res, label) ==
    IF res.score >= best.score
    THEN [score |-> res.score, index |-> res.index, match_type |-> label]
    ELSE best

\* l. 309-312 and its three repetitions: strictly greater replaces.
take_better(best, res, label) ==
    IF res.score > best.score
    THEN [score |-> res.score, index |-> res.index, match_type |-> label]
    ELSE best

\* l. 299-341: the directed searches of one 2025 record, in source order.
best_of_searches(eng_2025, vern_2025, names_2002_english, names_2002_vernacular) ==
    LET none == [score |-> 0, index |-> <<>>, match_type |-> "None"]
        ee == IF eng_2025 # <<>>
              THEN take_better(none,
                       find_best_match(eng_2025, names_2002_english,
                                       range(Len(names_2002_english))),
                       "English-English")
              ELSE none
        ev == IF eng_2025 # <<>>
              THEN take_better(ee,
                       find_best_match(eng_2025, names_2002_vernacular,
                                       range(Len(names_2002_vernacular))),
                       "English-Vernacular")
              ELSE ee
        vv == IF vern_2025 # <<>>
              THEN take_better(ev,
                       find_best_match(vern_2025, names_2002_vernacular,
                                       range(Len(names_2002_vernacular))),
                       "Vernacular-Vernacular")
              ELSE ev
    IN  IF vern_2025 # <<>>
        THEN take_better(vv,
                 find_best_match(vern_2025, names_2002_english,
                                 range(Len(names_2002_english))),
                 "Vernacular-English")
        ELSE vv

\* is_match with the threshold as a strict bound.
is_match_strict(best_match_score, best_match_idx, threshold) ==
    /\ best_match_score > threshold * ScoreUnit
    /\ best_match_idx # <<>>

\* l. 344: the record is a match.
is_match(best_match_score, best_match_idx, threshold) ==
    /\ best_match_score >= threshold * ScoreUnit
    /\ best_match_idx # <<>>

\* A duplicate_id is an int (the sequential counter) or a str (a key value).
IntId(n) == [kind |-> "int", num |-> n, text |-> <<>>]

StrId(s) == [kind |-> "str", num |-> 0, text |-> s]

\* duplicate_id_value that takes the key value as it stands in the sheet.
duplicate_id_value_untrimmed(pk, d25, row_2025, sequential_id) ==
    IF pk # <<>> /\ pk[1] # <<>> /\ pk[1] \in Range(d25.columns)
    THEN IF row_2025[pk[1]].isna
         THEN IntId(sequential_id)
         ELSE StrId(row_2025[pk[1]].text)
    ELSE IntId(sequential_id)

\* l. 349-358
duplicate_id_value(pk, d25, row_2025, sequential_id) ==
    IF pk # <<>> /\ pk[1] # <<>> /\ pk[1] \in Range(d25.columns)
    THEN IF row_2025[pk[1]].isna
         THEN IntId(sequential_id)
         ELSE StrId(strip(row_2025[pk[1]].text))
    ELSE IntId(sequential_id)

\* l. 376-379
count_match(st, best_match_score) ==
    IF best_match_score = 100 * ScoreUnit
    THEN [st EXCEPT !.exact_matches = @ + 1]
    ELSE [st EXCEPT !.fuzzy_matches = @ + 1]

\* count_no_match without the increment.
count_no_match_skipped(st) == st

\* l. 296 and l. 381
count_no_match(st) == [st EXCEPT !.no_matches = @ + 1]

\* compare_record that matches each 2002 row once: a record whose best 2002
\* row already has a MatchRecord is counted in no_matches.
compare_record_once(d25, d02, pk, threshold, k, loc) ==
    LET row_2025 == d25.rows[k]
        eng_2025 == normalize_name(row_2025[ElectorsName])
        vern_2025 == normalize_name(row_2025[ElectorsNameVernacular])
        best == best_of_searches(eng_2025, vern_2025,
                                 names_of(d02, ElectorsName),
                                 names_of(d02, ElectorsNameVernacular))
    IN  IF eng_2025 = <<>> /\ vern_2025 = <<>>
        THEN [loc EXCEPT !.stats = count_no_match(@)]
        ELSE IF /\ is_match(best.score, best.index, threshold)
                /\ \A p \in 1..Len(loc.duplicates) :
                      loc.duplicates[p].index_2002 # d02.index[best.index[1] + 1]
        THEN LET match_row_2002 == d02.rows[best.index[1] + 1]
                 duplicate_info ==
                     [duplicate_id |-> duplicate_id_value(pk, d25, row_2025,
                                                          loc.sequential_id),
                      index_2025 |-> d25.index[k],
                      english_2025 |-> row_2025[ElectorsName],
                      vernacular_2025 |-> row_2025[ElectorsNameVernacular],
                      index_2002 |-> d02.index[best.index[1] + 1],
                      english_2002 |-> match_row_2002[ElectorsName],
                      vernacular_2002 |-> match_row_2002[ElectorsNameVernacular],
                      similarity_score |-> best.score,
                      match_type |-> best.match_type,
                      is_exact_match |-> (best.score = 100 * ScoreUnit)]
             IN  [duplicates |-> Append(loc.duplicates, duplicate_info),
                  sequential_id |-> loc.sequential_id + 1,
                  stats |-> count_match(loc.stats, best.score)]
        ELSE [loc EXCEPT !.stats = count_no_match(@)]

\* l. 290-381: one iteration of the loop, for the row at position k of
\* df_2025.  loc is [duplicates, sequential_id, stats].
compare_record(d25, d02, pk, threshold, k, loc) ==
    LET row_2025 == d25.rows[k]
        eng_2025 == normalize_name(row_2025[ElectorsName])
        vern_2025 == normalize_name(row_2025[ElectorsNameVernacular])
        best == best_of_searches(eng_2025, vern_2025,
                                 names_of(d02, ElectorsName),
                                 names_of(d02, ElectorsNameVernacular))
    IN  IF eng_2025 = <<>> /\ vern_2025 = <<>>
        THEN [loc EXCEPT !.stats = count_no_match(@)]
        ELSE IF is_match(best.score, best.index, threshold)
        THEN LET match_row_2002 == d02.rows[best.index[1] + 1]
                 duplicate_info ==
                     [duplicate_id |-> duplicate_id_value(pk, d25, row_2025,
                                                          loc.sequential_id),
                      index_2025 |-> d25.index[k],
                      english_2025 |-> row_2025[ElectorsName],
                      vernacular_2025 |-> row_2025[ElectorsNameVernacular],
                      index_2002 |-> d02.index[best.index[1] + 1],
                      english_2002 |-> match_row_2002[ElectorsName],
                      vernacular_2002 |-> match_row_2002[ElectorsNameVernacular],
                      similarity_score |-> best.score,
                      match_type |-> best.match_type,
                      is_exact_match |-> (best.score = 100 * ScoreUnit)]
             IN  [duplicates |-> Append(loc.duplicates, duplicate_info),
                  sequential_id |-> loc.sequential_id + 1,
                  stats |-> count_match(loc.stats, best.score)]
        ELSE [loc EXCEPT !.stats = count_no_match(@)]

(***************************************************************************)
(* export_results                                                          *)
(***************************************************************************)
\* The orders sort_values('similarity_score', ascending=False) may give:
\* pandas' default kind, quicksort, promises no order among equal scores.
sorted_orders(recs) ==
    {perm \in [1..Len(recs) -> 1..Len(recs)] :
        /\ \A a, b \in 1..Len(recs) : a # b => perm[a] # perm[b]
        /\ \A a \in 1..Len(recs) - 1 :
               recs[perm[a]].similarity_score >= recs[perm[a + 1]].similarity_score}

\* renumber that keeps the identifiers given at discovery.
renumber_skipped(table, pk) == table

\* l. 425-427
renumber(table, pk) ==
    IF pk = <<>> \/ pk[1] = <<>>
    THEN [k \in 1..Len(table) |-> [table[k] EXCEPT !.duplicate_id = IntId(k)]]
    ELSE table

\* l. 408-429: the Duplicates table for one sort order.
duplicates_table(recs, pk, perm) ==
    IF recs = <<>>
    THEN <<>>
    ELSE renumber([k \in 1..Len(recs) |-> recs[perm[k]]], pk)

\* l. 432-453
summary_data(st, recs, threshold) ==
    [total_2025 |-> st.total_2025,
     total_2002 |-> st.total_2002,
     total_duplicates |-> Len(recs),
     exact_matches |-> st.exact_matches,
     fuzzy_matches |-> st.fuzzy_matches,
     no_matches |-> st.no_matches,
     threshold |-> threshold]


(***************************************************************************)
(* The callers' threshold handling                                         *)
(***************************************************************************)
Digits == <<"0", "1", "2", "3", "4", "5", "6", "7", "8", "9">>

is_digit(c) == \E d \in 1..Len(Digits) : Digits[d] = c

digit_value(c) == (CHOOSE d \in 1..Len(Digits) : Digits[d] = c) - 1

RECURSIVE digits_value(_)
digits_value(s) ==
    IF s = <<>> THEN 0
    ELSE 10 * digits_value(SubSeq(s, 1, Len(s) - 1)) + digit_value(s[Len(s)])

\* int(text): <<v>>, or <<>> for ValueError.  Surrounding whitespace and one
\* sign are accepted.
parse_int(text) ==
    LET t == strip(text)
        signed == t # <<>> /\ t[1] \in {"+", "-"}
        body == IF signed THEN Tail(t) ELSE t
    IN  IF body = <<>> \/ \E k \in 1..Len(body) : ~is_digit(body[k])
        THEN <<>>
        ELSE IF signed /\ t[1] = "-"
             THEN <<0 - digits_value(body)>>
             ELSE <<digits_value(body)>>

DEFAULT_THRESHOLD == 85

\* l. 533 of main and l. 64 of upload_file
out_of_range(threshold) == threshold < 0 \/ threshold > 100

\* main, l. 528-537: the threshold main passes to the constructor.
main_threshold(typed) ==
    LET threshold_input_ == strip(typed)
        parsed == parse_int(threshold_input_)
    IN  IF threshold_input_ = <<>> THEN DEFAULT_THRESHOLD
        ELSE IF parsed = <<>> THEN DEFAULT_THRESHOLD
        ELSE IF out_of_range(parsed[1]) THEN DEFAULT_THRESHOLD
        ELSE parsed[1]

\* upload_file, l. 63-65: <<threshold>>, or <<>> when the handler leaves by
\* its except clause: request.form.get('threshold', '85', type=int) returns
\* the default, the str '85', for a field that is missing or is no int, and
\* '85' < 0 raises TypeError.
upload_threshold(field) ==
    LET parsed == IF field = <<>> THEN <<>> ELSE parse_int(field[1])
    IN  IF parsed = <<>> THEN <<>>
        ELSE IF out_of_range(parsed[1]) THEN <<DEFAULT_THRESHOLD>>
        ELSE parsed

\* __init__, l. 52-61
init_threshold(similarity_threshold_) == similarity_threshold_


(***************************************************************************)
(* Inputs                                                                  *)
(***************************************************************************)
MaxRows2025 == 2

MaxRows2002 == 2

MaxRuns == 2

MaxKeyRows == 5

MaxPool == 3

MaxKeyedRows == 6

MaxKeyedMatches == 3

SeqsUpTo(S, n) == UNION {[1..m -> S] : m \in 0..n}

\* Other columns a sheet may have.
ColID == <<"I", "D">>

ColSNo == <<"S", ".", "N", "o">>

ColPaid == <<"P", "a", "i", "d">>

ColWard == <<"W", "a", "r", "d">>

ColVoterId == <<" ", "V", "o", "t", "e", "r", " ", "I", "d", " ">>

\* A sheet with the given columns; a row is [eng, vern, keys], keys giving
\* the cells of the other columns (NaN where it gives none).
Sheet(columns, rowspecs) ==
    [columns |-> columns,
     rows |-> [k \in 1..Len(rowspecs) |->
                 [c \in Range(columns) |->
                     IF c = ElectorsName THEN rowspecs[k].eng
                     ELSE IF c = ElectorsNameVernacular THEN rowspecs[k].vern
                     ELSE IF c \in DOMAIN rowspecs[k].keys THEN rowspecs[k].keys[c]
                     ELSE NaN]]]

Book(sheet_2025, sheet_2002) ==
    [exists |-> TRUE,
     sheets |-> [n \in {"2025_LIST", "2002_LIST"} |->
                    IF n = "2025_LIST" THEN sheet_2025 ELSE sheet_2002]]

KeyCell(text) == [c \in {ColID} |-> Cell(text)]

NoKey == [c \in {ColID} |-> NaN]

\* Rows of a 2025 sheet: a name that needs normalizing, a row that is empty
\* once normalized, a row dropna removes, a row with a vernacular name only.
Rows2025 ==
    { [eng |-> Cell(<<" ", "B", " ", " ", "a">>), vern |-> Cell(<<"a", "b">>), keys |-> KeyCell(<<"7">>)],
      [eng |-> Cell(<<" ">>), vern |-> NaN, keys |-> NoKey],
      [eng |-> NaN, vern |-> NaN, keys |-> KeyCell(<<"8">>)],
      [eng |-> NaN, vern |-> Cell(<<"a", " ", " ", "b">>), keys |-> KeyCell(<<" ", "7", " ">>)] }

Rows2002 ==
    { [eng |-> Cell(<<"a", " ", "b">>), vern |-> NaN, keys |-> KeyCell(<<"7">>)],
      [eng |-> Cell(<<"a">>), vern |-> Cell(<<"a", "b">>), keys |-> KeyCell(<<"9">>)],
      [eng |-> NaN, vern |-> NaN, keys |-> NoKey] }

\* Workbooks load_excel_sheets rejects.
BadBooks ==
    LET specs == <<CHOOSE r \in Rows2002 : ~r.eng.isna /\ r.vern.isna>>
        one == Sheet(required_cols, specs)
    IN  { [exists |-> FALSE, sheets |-> [n \in {} |-> one]],
          [exists |-> TRUE, sheets |-> [n \in {"2002_LIST"} |-> one]],
          [exists |-> TRUE, sheets |-> [n \in {"2025_LIST"} |-> one]],
          Book(Sheet(<<ElectorsName>>, specs), one),
          Book(one, Sheet(<<ColID, ElectorsNameVernacular>>, specs)) }

\* Workbooks without any identifier column.
PlainBooks ==
    { Book(Sheet(required_cols, r25), Sheet(required_cols, r02)) :
        r25 \in SeqsUpTo(Rows2025, MaxRows2025),
        r02 \in SeqsUpTo(Rows2002, MaxRows2002) }

\* Workbooks with an ID column in both sheets.
KeyedBooks ==
    { Book(Sheet(<<ColID>> \o required_cols, r25),
           Sheet(<<ColID>> \o required_cols, r02)) :
        r25 \in [1..2 -> Rows2025],
        r02 \in {<<r>> : r \in Rows2002} }

Books == BadBooks \cup PlainBooks \cup KeyedBooks

ThresholdArgs == {0 - 5, 50, 81, 100}

IntInput(t) == [kind |-> "int", text |-> <<>>, value |-> t]

TextInput(s) == [kind |-> "text", text |-> s, value |-> 0]

MissingInput == [kind |-> "missing", text |-> <<>>, value |-> 0]

(***************************************************************************)
(* __init__ and the initial states                                         *)
(***************************************************************************)
\* l. 60-72: the comparator as the constructor leaves it.
Constructed(path, threshold) ==
    /\ excel_path = path
    /\ similarity_threshold = init_threshold(threshold)
    /\ df_2025 = <<>>
    /\ df_2002 = <<>>
    /\ duplicates = <<>>
    /\ primary_key_column = <<>>
    /\ stats = [total_2025 |-> 0, total_2002 |-> 0, exact_matches |-> 0,
                fuzzy_matches |-> 0, no_matches |-> 0]

NotStarted ==
    /\ load_result = <<>>
    /\ runs = 0
    /\ loop = <<>>
    /\ exported = <<>>

NoSearch ==
    /\ query = <<>>
    /\ found = <<>>

\* A program that builds a comparator itself and calls its methods.
Init ==
    /\ RAPIDFUZZ_AVAILABLE \in BOOLEAN
    /\ entry = "api"
    /\ \E t \in ThresholdArgs :
          /\ threshold_input = IntInput(t)
          /\ \E b \in Books : Constructed(b, t)
    /\ pc = "idle"
    /\ NotStarted
    /\ NoSearch

(***************************************************************************)
(* The methods, as steps of the calling thread                             *)
(***************************************************************************)
Self == [ok |-> FALSE, df_2025 |-> df_2025, df_2002 |-> df_2002,
         primary_key_column |-> primary_key_column, stats |-> stats]

\* The test that goes on whatever load_excel_sheets returned.
load_succeeded_any(result) == result # <<>>

\* main, l. 543-546, and upload_file, l. 80-82: the test of what
\* load_excel_sheets returned, before anything else is called.
load_succeeded(result) == result = <<TRUE>>

\* load_excel_sheets.  main and upload_file leave when it returns False.
Load ==
    /\ pc = "idle"
    /\ entry = "api" \/ load_result = <<>>
    /\ \E r \in {load_excel_sheets(excel_path, Self)} :
           /\ df_2025' = r.df_2025
           /\ df_2002' = r.df_2002
           /\ primary_key_column' = r.primary_key_column
           /\ stats' = r.stats
           /\ load_result' = <<r.ok>>
           /\ pc' = IF entry # "api" /\ ~load_succeeded(<<r.ok>>)
                    THEN "exit" ELSE "idle"
    /\ UNCHANGED <<RAPIDFUZZ_AVAILABLE, entry, threshold_input, excel_path,
                   similarity_threshold, duplicates, runs, loop, exported,
                   query, found>>

\* compare_names, l. 260-287: up to the loop.
CompareBegin ==
    /\ pc = "idle"
    /\ load_succeeded(load_result)
    /\ IF entry = "api" THEN runs < MaxRuns ELSE runs = 0
    /\ loop' = <<[i |-> 0, duplicates |-> <<>>, sequential_id |-> 1]>>
    /\ pc' = "comparing"
    /\ UNCHANGED <<RAPIDFUZZ_AVAILABLE, entry, threshold_input, excel_path,
                   similarity_threshold, df_2025, df_2002, primary_key_column,
                   duplicates, stats, load_result, runs, exported, query, found>>

\* compare_names, l. 290-381: one iteration of the loop.
CompareIter ==
    /\ pc = "comparing"
    /\ loop[1].i < Len(df_2025[1].rows)
    /\ \E r \in {compare_record(df_2025[1], df_2002[1], primary_key_column,
                                similarity_threshold, loop[1].i + 1,
                                [duplicates |-> loop[1].duplicates,
                                 sequential_id |-> loop[1].sequential_id,
                                 stats |-> stats])} :
           /\ loop' = <<[i |-> loop[1].i + 1, duplicates |-> r.duplicates,
                         sequential_id |-> r.sequential_id]>>
           /\ stats' = r.stats
    /\ UNCHANGED <<RAPIDFUZZ_AVAILABLE, entry, threshold_input, excel_path,
                   similarity_threshold, df_2025, df_2002, primary_key_column,
                   duplicates, pc, load_result, runs, exported, query, found>>

\* compare_names, l. 383-389: after the loop.
CompareEnd ==
    /\ pc = "comparing"
    /\ loop[1].i = Len(df_2025[1].rows)
    /\ duplicates' = loop[1].duplicates
    /\ loop' = <<>>
    /\ runs' = runs + 1
    /\ pc' = "idle"
    /\ UNCHANGED <<RAPIDFUZZ_AVAILABLE, entry, threshold_input, excel_path,
                   similarity_threshold, df_2025, df_2002, primary_key_column,
                   stats, load_result, exported, query, found>>

\* export_results: the last call of every caller.  main and upload_file
\* make it after their one call of compare_names.
Export ==
    /\ pc = "idle"
    /\ entry = "api" \/ runs = 1
    /\ \E perm \in sorted_orders(duplicates) :
          exported' = <<[duplicates |-> duplicates_table(duplicates,
                                            primary_key_column, perm),
                         summary |-> summary_data(stats, duplicates,
                                                  similarity_threshold)]>>
    /\ pc' = "exit"
    /\ UNCHANGED <<RAPIDFUZZ_AVAILABLE, entry, threshold_input, excel_path,
                   similarity_threshold, df_2025, df_2002, primary_key_column,
                   duplicates, stats, load_result, runs, loop, query, found>>

Next == Load \/ CompareBegin \/ CompareIter \/ CompareEnd \/ Export

Spec == Init /\ [][Next]_vars


(***************************************************************************)
(* Every threshold of 0..100, on workbooks with one 2025 record            *)
(***************************************************************************)
OneRecordBooks ==
    { Book(Sheet(required_cols, <<r25>>), Sheet(required_cols, r02)) :
        r25 \in Rows2025, r02 \in SeqsUpTo(Rows2002, MaxRows2002) }

InitThreshold ==
    /\ RAPIDFUZZ_AVAILABLE \in BOOLEAN
    /\ entry = "api"
    /\ \E t \in 0..100 :
          /\ threshold_input = IntInput(t)
          /\ \E b \in OneRecordBooks : Constructed(b, t)
    /\ pc = "idle"
    /\ NotStarted
    /\ NoSearch

SpecThreshold == InitThreshold /\ [][Next]_vars

(***************************************************************************)
(* Workbooks with identifier columns, for _detect_primary_key_column       *)
(***************************************************************************)
\* The columns that precede the name columns of the 2025 sheet.
KeyColumns ==
    { <<ColWard>>, <<ColSNo>>, <<ColPaid, ColSNo>>, <<ColSNo, ColPaid>>,
      <<ColWard, ColVoterId>> }

\* n rows with a name each (the first has a match in the 2002 sheet); the
\* first column of cols is present in the first m1 rows, the other columns in
\* the first m2 rows.
KeyRows(cols, n, m1, m2) ==
    [k \in 1..n |->
        [eng |-> Cell(IF k = 1 THEN <<"a">> ELSE <<"c">>), vern |-> NaN,
         keys |-> [c \in Range(cols) |->
                     IF (c = cols[1] /\ k <= m1) \/ (c # cols[1] /\ k <= m2)
                     THEN Cell(<<Digits[k + 1]>>)
                     ELSE NaN]]]

DetectBooks ==
    { Book(Sheet(cols \o required_cols, KeyRows(cols, n[1], n[2], n[3])),
           Sheet(cols02 \o required_cols, KeyRows(cols02, 1, 1, 1))) :
        cols \in KeyColumns,
        cols02 \in {<<ColSNo>>, <<ColPaid, ColSNo, ColVoterId>>},
        n \in {x \in (0..MaxKeyRows) \X (0..MaxKeyRows) \X (0..MaxKeyRows) :
                 x[2] <= x[1] /\ x[3] <= x[1]} }

InitDetect ==
    /\ RAPIDFUZZ_AVAILABLE \in BOOLEAN
    /\ entry = "api"
    /\ threshold_input = IntInput(DEFAULT_THRESHOLD)
    /\ \E b \in DetectBooks : Constructed(b, DEFAULT_THRESHOLD)
    /\ pc = "idle"
    /\ NotStarted
    /\ NoSearch

SpecDetect == InitDetect /\ [][Next]_vars

(***************************************************************************)
(* Workbooks whose ID column is detected, with rows that lack the key      *)
(***************************************************************************)
KeyedNames == { <<"a", " ", "b">>, <<"a">>, <<"c">> }

\* The 2025 rows of a keyed workbook: row k has the name names[k] and, unless
\* k is in missing, a key whose text is the digit k, padded with spaces in
\* the odd rows.
KeyedRows(names, missing) ==
    [k \in 1..Len(names) |->
        [eng |-> Cell(names[k]), vern |-> NaN,
         keys |-> IF k \in missing THEN NoKey
                  ELSE KeyCell(IF k % 2 = 1 THEN <<" ", Digits[k + 1], " ">>
                               ELSE <<Digits[k + 1]>>)]]

\* The first MaxKeyedMatches rows have any name of KeyedNames, and so may
\* score above 0 against the 2002 sheet; the later rows have the name "c".  At
\* most one row lacks the key.
KeyedDetectBooks ==
    { Book(Sheet(<<ColID>> \o required_cols, KeyedRows(names, missing)),
           Sheet(<<ColID>> \o required_cols,
                 <<[eng |-> Cell(<<"a", " ", "b">>), vern |-> NaN,
                    keys |-> KeyCell(<<"1">>)]>>)) :
        names \in {x \in SeqsUpTo(KeyedNames, MaxKeyedRows) :
                     \A k \in 1..Len(x) : k > MaxKeyedMatches => x[k] = <<"c">>},
        missing \in {{}} \cup {{k} : k \in 1..MaxKeyedRows} }

\* main, once it has built the comparator (l. 540), with the threshold typed
\* as 50.
InitKeyed ==
    /\ RAPIDFUZZ_AVAILABLE \in BOOLEAN
    /\ entry = "main"
    /\ \E typed \in {<<"5", "0">>} :
          /\ threshold_input = TextInput(typed)
          /\ \E b \in KeyedDetectBooks : Constructed(b, main_threshold(typed))
    /\ pc = "idle"
    /\ NotStarted
    /\ NoSearch

SpecKeyed == InitKeyed /\ [][Next]_vars

(***************************************************************************)
(* find_best_match on its own                                              *)
(***************************************************************************)
\* Normalized names, as compare_names passes them.
SearchNames ==
    { <<>>, <<"a">>, <<"c">>, <<"a", " ", "b">>, <<"b", " ", "a">>, <<"a", "b">> }

InitSearch ==
    /\ RAPIDFUZZ_AVAILABLE \in BOOLEAN
    /\ entry = "api"
    /\ threshold_input = IntInput(DEFAULT_THRESHOLD)
    /\ Constructed(CHOOSE b \in BadBooks : ~b.exists, DEFAULT_THRESHOLD)
    /\ pc = "idle"
    /\ NotStarted
    /\ found = <<>>
    /\ \E target_name \in SearchNames :
          \E candidate_names \in SeqsUpTo(SearchNames, MaxPool) :
              query = <<[target_name |-> target_name,
                         candidate_names |-> candidate_names]>>

\* One call, as compare_names makes it: the indices are the positions.
Search ==
    /\ query # <<>>
    /\ found = <<>>
    /\ found' = <<find_best_match(query[1].target_name,
                                  query[1].candidate_names,
                                  range(Len(query[1].candidate_names)))>>
    /\ UNCHANGED <<RAPIDFUZZ_AVAILABLE, entry, threshold_input, excel_path,
                   similarity_threshold, df_2025, df_2002, primary_key_column,
                   duplicates, stats, pc, load_result, runs, loop, exported,
                   query>>

SpecSearch == InitSearch /\ [][Search]_vars

(***************************************************************************)
(* The callers: main and upload_file, and a program that passes the        *)
(* threshold to the constructor itself                                     *)
(***************************************************************************)
TypedThresholds ==
    { <<>>, <<" ">>, <<"5", "0">>, <<" ", "1", "0", "0", " ">>, <<"0">>,
      <<"-", "1">>, <<"1", "0", "1">>, <<"8", "o">> }

CallerBooks ==
    { b \in BadBooks : ~b.exists \/ DOMAIN b.sheets = {"2025_LIST", "2002_LIST"} }
    \cup { Book(Sheet(required_cols, <<r25>>), Sheet(required_cols, <<r02>>)) :
             r25 \in Rows2025, r02 \in Rows2002 }

\* The fields before any constructor has run; nothing reads them then.
Unbuilt(path) == Constructed(path, DEFAULT_THRESHOLD)

InitCallers ==
    /\ RAPIDFUZZ_AVAILABLE \in BOOLEAN
    /\ NotStarted
    /\ NoSearch
    /\ \E b \in CallerBooks :
          \/ /\ entry = "main"
             /\ threshold_input \in {TextInput(s) : s \in TypedThresholds}
             /\ pc = "start"
             /\ Unbuilt(b)
          \/ /\ entry = "upload_file"
             /\ threshold_input \in
                    {TextInput(s) : s \in TypedThresholds} \cup {MissingInput}
             /\ pc = "start"
             /\ Unbuilt(b)
          \/ /\ entry = "api"
             /\ \E t \in {0 - 1, 50, 101} :
                   /\ threshold_input = IntInput(t)
                   /\ Constructed(b, t)
             /\ pc = "idle"

\* main, l. 522-540: up to the constructor.  (get_excel_file_path has by then
\* checked that the file exists.)
MainStart ==
    /\ pc = "start"
    /\ entry = "main"
    /\ excel_path.exists
    /\ similarity_threshold' = init_threshold(main_threshold(threshold_input.text))
    /\ pc' = "idle"
    /\ UNCHANGED <<RAPIDFUZZ_AVAILABLE, entry, threshold_input, excel_path,
                   df_2025, df_2002, primary_key_column, duplicates, stats,
                   load_result, runs, loop, exported, query, found>>

\* upload_file, l. 46-77: up to the constructor, or out by the except clause.
UploadStart ==
    /\ pc = "start"
    /\ entry = "upload_file"
    /\ \E threshold \in {upload_threshold(IF threshold_input.kind = "missing"
                                          THEN <<>>
                                          ELSE <<threshold_input.text>>)} :
          IF threshold = <<>>
          THEN /\ pc' = "exit"
               /\ UNCHANGED similarity_threshold
          ELSE /\ pc' = "idle"
               /\ similarity_threshold' = init_threshold(threshold[1])
    /\ UNCHANGED <<RAPIDFUZZ_AVAILABLE, entry, threshold_input, excel_path,
                   df_2025, df_2002, primary_key_column, duplicates, stats,
                   load_result, runs, loop, exported, query, found>>

NextCallers ==
    \/ MainStart
    \/ UploadStart
    \/ Load
    \/ CompareBegin
    \/ CompareIter
    \/ CompareEnd
    \/ Export

SpecCallers == InitCallers /\ [][NextCallers]_vars

\* main and upload_file alone.
InitTwoCallers == InitCallers /\ entry # "api"

SpecTwoCallers == InitTwoCallers /\ [][NextCallers]_vars


(***************************************************************************)
(* Properties                                                              *)
(***************************************************************************)
Outcomes(st) == st.exact_matches + st.fuzzy_matches + st.no_matches

\* compare_names has returned at least once and is not running.
Compared == runs >= 1 /\ pc # "comparing"

\* C1: whenever a run of compare_names has ended (a repeated run on the same
\* comparator included), exact_matches + fuzzy_matches + no_matches equals
\* total_2025, the number of 2025 rows left after the cleaning done at load.
C1_TotalAccounting ==
    Compared => Outcomes(stats) = stats.total_2025

\* Both normalized names of the 2025 row at position k are empty.
EmptyRecord(k) ==
    /\ normalize_name(df_2025[1].rows[k][ElectorsName]) = <<>>
    /\ normalize_name(df_2025[1].rows[k][ElectorsNameVernacular]) = <<>>

\* C2: each 2025 record compare_names processes contributes exactly one
\* outcome: a record with both normalized names empty adds one to no_matches
\* and no MatchRecord; any other record adds either one MatchRecord, with one
\* increment of exact_matches or fuzzy_matches, or one to no_matches, never
\* both and never neither.
C2_OneOutcomePerRecord ==
    [][(pc = "comparing" /\ pc' = "comparing") =>
        LET new_records == Len(loop'[1].duplicates) - Len(loop[1].duplicates)
            new_exact == stats'.exact_matches - stats.exact_matches
            new_fuzzy == stats'.fuzzy_matches - stats.fuzzy_matches
            new_none == stats'.no_matches - stats.no_matches
        IN  /\ loop'[1].i = loop[1].i + 1
            /\ new_records \in {0, 1}
            /\ new_none \in {0, 1}
            /\ new_records + new_none = 1
            /\ new_exact \in {0, 1}
            /\ new_fuzzy \in {0, 1}
            /\ new_exact + new_fuzzy = new_records
            /\ SubSeq(loop'[1].duplicates, 1, Len(loop[1].duplicates))
                   = loop[1].duplicates
            /\ EmptyRecord(loop[1].i + 1) => new_none = 1 /\ new_records = 0
    ]_vars

\* Two records in, the first run has produced one MatchRecord and counted
\* one record, an empty one, in no_matches.
C2_Witness ==
    /\ pc = "comparing"
    /\ runs = 0
    /\ loop[1].i = 2
    /\ Len(loop[1].duplicates) = 1
    /\ stats.no_matches = 1
    /\ stats.exact_matches + stats.fuzzy_matches = 1
    /\ EmptyRecord(1) \/ EmptyRecord(2)


SetMax(S) == CHOOSE x \in S : \A y \in S : y <= x

SetMin(S) == CHOOSE x \in S : \A y \in S : x <= y

\* The 2025 row at position k has a MatchRecord among recs.
Emitted(recs, k) ==
    \E p \in 1..Len(recs) : recs[p].index_2025 = df_2025[1].index[k]

\* The scores of the directed searches that run for the 2025 row at position
\* k: each non-empty normalized name of the row against every name of the 2002
\* sheet, English and vernacular.
SearchScores(k) ==
    LET queries == {normalize_name(df_2025[1].rows[k][ElectorsName]),
                    normalize_name(df_2025[1].rows[k][ElectorsNameVernacular])}
                   \ {<<>>}
        pool == Range(names_of(df_2002[1], ElectorsName))
                \cup Range(names_of(df_2002[1], ElectorsNameVernacular))
    IN  {calculate_similarity(q, n) : q \in queries, n \in pool}

BestScore(k) == SetMax(SearchScores(k) \cup {0})

\* C3: for every threshold t of 0..100 and every 2025 record that is not
\* empty, compare_names emits a MatchRecord for the record if and only if its
\* best score over the directed searches is at least t and some candidate was
\* found (scored above 0); the records it does not emit it counts in
\* no_matches.  So a best score of exactly t is included and one below t is
\* not.
C3_ThresholdInclusive ==
    (pc = "comparing" /\ similarity_threshold \in 0..100) =>
        /\ \A k \in 1..loop[1].i :
              ~EmptyRecord(k) =>
                  (Emitted(loop[1].duplicates, k)
                     <=> /\ BestScore(k) >= similarity_threshold * ScoreUnit
                         /\ BestScore(k) > 0)
        /\ runs = 0 =>
              stats.no_matches =
                  Cardinality({k \in 1..loop[1].i : ~Emitted(loop[1].duplicates, k)})

\* A record whose best score is exactly the threshold, below 100, was emitted.
C3_Witness ==
    /\ pc = "comparing"
    /\ loop[1].i = 1
    /\ similarity_threshold \in 1..99
    /\ BestScore(1) = similarity_threshold * ScoreUnit
    /\ Len(loop[1].duplicates) = 1
    /\ loop[1].duplicates[1].similarity_score = similarity_threshold * ScoreUnit

\* The scores of the candidates of the query, in pool order.
QueryScores ==
    [k \in 1..Len(query[1].candidate_names) |->
        calculate_similarity(query[1].target_name, query[1].candidate_names[k])]

\* The 0-based position of the first candidate with the given score.
FirstWithScore(score) ==
    SetMin({k \in 1..Len(QueryScores) : QueryScores[k] = score}) - 1

\* C4 as claimed: find_best_match returns (None, 0) when the query or the pool
\* is empty; otherwise the maximum score over all candidates with the index of
\* the first candidate that attains it, so that a pool with an exact copy of
\* the query returns the first such copy with score 100.
C4_FirstMaximumAlways ==
    found # <<>> =>
        IF query[1].target_name = <<>> \/ query[1].candidate_names = <<>>
        THEN found[1] = [index |-> <<>>, score |-> 0]
        ELSE /\ found[1].score = SetMax(Range(QueryScores))
             /\ found[1].index = <<FirstWithScore(found[1].score)>>
             /\ \A k \in 1..Len(QueryScores) :
                   (/\ query[1].candidate_names[k] = query[1].target_name
                    /\ \A j \in 1..k - 1 :
                          query[1].candidate_names[j] # query[1].target_name)
                   => found[1] = [index |-> <<k - 1>>, score |-> 100 * ScoreUnit]

\* The tokens of a are those of b in some order.
SameTokens(a, b) ==
    LET ta == split(a)
        tb == split(b)
    IN  /\ Len(ta) = Len(tb)
        /\ \E perm \in [1..Len(ta) -> 1..Len(ta)] :
              /\ \A x, y \in 1..Len(ta) : x # y => perm[x] # perm[y]
              /\ \A x \in 1..Len(ta) : ta[x] = tb[perm[x]]

\* C4 as amended: find_best_match returns (None, 0) when the query or the
\* pool is empty; otherwise the maximum score over all candidates, with the
\* index of the first candidate that attains it when that maximum is above 0
\* and with None when every candidate scores 0.  A pool with an exact copy of
\* the query returns score 100 and the first candidate that scores 100: the
\* first exact copy, unless an earlier candidate has the same tokens in
\* another order.
C4_FirstPositiveMaximum ==
    found # <<>> =>
        IF query[1].target_name = <<>> \/ query[1].candidate_names = <<>>
        THEN found[1] = [index |-> <<>>, score |-> 0]
        ELSE /\ found[1].score = SetMax(Range(QueryScores))
             /\ found[1].index = IF found[1].score > 0
                                 THEN <<FirstWithScore(found[1].score)>>
                                 ELSE <<>>
             /\ \A k \in 1..Len(QueryScores) :
                   (/\ query[1].candidate_names[k] = query[1].target_name
                    /\ \A j \in 1..k - 1 :
                          query[1].candidate_names[j] # query[1].target_name)
                   => /\ found[1].score = 100 * ScoreUnit
                      /\ found[1].index = <<FirstWithScore(100 * ScoreUnit)>>
                      /\ (\A j \in 1..k - 1 :
                             ~SameTokens(query[1].candidate_names[j],
                                         query[1].target_name))
                         => found[1].index = <<k - 1>>

\* The query has two exact copies in its pool, after a candidate that scores
\* less, and the first copy was returned.
C4_Witness ==
    /\ found # <<>>
    /\ found[1].score = 100 * ScoreUnit
    /\ \E k1, k2 \in 1..Len(query[1].candidate_names) :
          /\ 1 < k1
          /\ k1 < k2
          /\ query[1].candidate_names[k1] = query[1].target_name
          /\ query[1].candidate_names[k2] = query[1].target_name
          /\ QueryScores[1] \in 1..(100 * ScoreUnit - 1)
          /\ found[1].index = <<k1 - 1>>

\* C5: for a threshold of at most 100, a 2025 record whose normalized English
\* name is not empty and has the tokens, in any order, of the normalized
\* English name of some 2002 record yields exactly one MatchRecord, with
\* match_type "English-English", score 100 and is_exact_match true, whatever
\* its vernacular name is.
C5_SameTokensExactEnglish ==
    (pc = "comparing" /\ similarity_threshold <= 100) =>
        \A k \in 1..loop[1].i :
            LET eng == normalize_name(df_2025[1].rows[k][ElectorsName])
                mine == {p \in 1..Len(loop[1].duplicates) :
                            loop[1].duplicates[p].index_2025 = df_2025[1].index[k]}
            IN  (/\ eng # <<>>
                 /\ \E m \in 1..Len(df_2002[1].rows) :
                       SameTokens(eng, normalize_name(df_2002[1].rows[m][ElectorsName])))
                => /\ Cardinality(mine) = 1
                   /\ \A p \in mine :
                         /\ loop[1].duplicates[p].match_type = "English-English"
                         /\ loop[1].duplicates[p].similarity_score = 100 * ScoreUnit
                         /\ loop[1].duplicates[p].is_exact_match

\* An English-English record of score 100 for a 2025 record that has a
\* vernacular name too and whose English tokens are in another order than
\* those of its match.
C5_Witness ==
    /\ pc = "comparing"
    /\ \E p \in 1..Len(loop[1].duplicates) :
          /\ loop[1].duplicates[p].match_type = "English-English"
          /\ loop[1].duplicates[p].is_exact_match
          /\ ~loop[1].duplicates[p].vernacular_2025.isna
          /\ normalize_name(loop[1].duplicates[p].english_2025)
                 # normalize_name(loop[1].duplicates[p].english_2002)

\* C6: when no primary-key column was detected, the duplicate_id values of
\* the exported Duplicates table, in the table's final, score-sorted order,
\* are 1, 2, ..., K, K being the number of MatchRecords.
C6_SequentialIdsInFinalOrder ==
    (exported # <<>> /\ primary_key_column = <<>>) =>
        LET table == exported[1].duplicates
        IN  /\ Len(table) = Len(duplicates)
            /\ \A k \in 1..Len(table) : table[k].duplicate_id = IntId(k)
            /\ \A k \in 1..Len(table) - 1 :
                  table[k].similarity_score >= table[k + 1].similarity_score

\* A table of two records exported without a key, the sort having moved the
\* later-found record first.
C6_Witness ==
    /\ exported # <<>>
    /\ primary_key_column = <<>>
    /\ Len(exported[1].duplicates) = 2
    /\ exported[1].duplicates[1].index_2025 > exported[1].duplicates[2].index_2025
    /\ exported[1].duplicates[1].similarity_score
           > exported[1].duplicates[2].similarity_score

\* The column the claim C7 describes: the first column of the 2025 sheet
\* whose name matches a pattern, that the 2002 sheet has too, and that is
\* present in at least 80% of the 2025 rows.
ClaimedKey ==
    LET d25 == df_2025[1]
        ok == {k \in 1..Len(d25.columns) :
                  /\ matches_pattern(d25.columns[k])
                  /\ d25.columns[k] \in Range(df_2002[1].columns)
                  /\ 10 * notna_sum(d25, d25.columns[k]) >= 8 * Len(d25.rows)}
    IN  IF ok = {} THEN <<>>
        ELSE <<d25.columns[CHOOSE k \in ok : \A j \in ok : k <= j]>>

\* C7: after a successful load of a 2025 sheet that has rows, the detected
\* primary key is the first 2025 column whose trimmed, case-folded name equals
\* or ends with an identifier pattern, that is a column of the 2002 sheet,
\* and that is non-missing in at least 80% of the 2025 rows (exactly 80%
\* qualifies); none when no column passes the three tests.
C7_DetectsAtEightyPercent ==
    (load_result = <<TRUE>> /\ Len(df_2025[1].rows) >= 1) =>
        primary_key_column = ClaimedKey

\* C8: a call of load_excel_sheets that returns False leaves df_2025,
\* df_2002, primary_key_column, duplicates and the counters as they were.
C8_FailedLoadLeavesNoState ==
    [][(pc = "idle" /\ load_result' = <<FALSE>>) =>
          UNCHANGED <<df_2025, df_2002, primary_key_column, duplicates, stats>>
    ]_vars

\* The threshold the caller supplied, when it is an integer: <<t>>.
Supplied ==
    IF threshold_input.kind = "int" THEN <<threshold_input.value>>
    ELSE IF threshold_input.kind = "text" THEN parse_int(threshold_input.text)
    ELSE <<>>

\* C9: whichever way the threshold came (the constructor, main, upload_file),
\* the similarity_threshold compare_names applies lies in 0..100, and is 85
\* when the supplied value was below 0 or above 100.
C9_ThresholdClamped ==
    pc = "comparing" =>
        /\ similarity_threshold \in 0..100
        /\ (Supplied # <<>> /\ out_of_range(Supplied[1]))
              => similarity_threshold = DEFAULT_THRESHOLD

\* C10: a column detected as the primary key has values that are unique in
\* the 2025 sheet and is not largely missing there.
C10_DetectedKeyIsUnique ==
    (load_result = <<TRUE>> /\ primary_key_column # <<>>) =>
        LET d25 == df_2025[1]
            col == primary_key_column[1]
        IN  /\ 10 * notna_sum(d25, col) > 8 * Len(d25.rows)
            /\ \A a, b \in 1..Len(d25.rows) :
                  (a # b /\ ~d25.rows[a][col].isna /\ ~d25.rows[b][col].isna)
                  => d25.rows[a][col].text # d25.rows[b][col].text

\* C11: the exported Duplicates table is ordered by similarity score,
\* non-increasing, and two MatchRecords of equal score stand in the order in
\* which compare_names discovered them (the order of their 2025 rows).
C11_StableDescendingSort ==
    exported # <<>> =>
        LET table == exported[1].duplicates
        IN  \A a, b \in 1..Len(table) :
               a < b =>
                  /\ table[a].similarity_score >= table[b].similarity_score
                  /\ table[a].similarity_score = table[b].similarity_score
                        => table[a].index_2025 < table[b].index_2025

\* The directed searches that run for the 2025 row at position k, in the
\* order English-English, English-Vernacular, Vernacular-Vernacular,
\* Vernacular-English, each with what find_best_match returned: the two with
\* the English query when the normalized English name is not empty, the two
\* with the vernacular query when the normalized vernacular name is not empty.
DirectedSearches(k) ==
    LET eng == normalize_name(df_2025[1].rows[k][ElectorsName])
        vern == normalize_name(df_2025[1].rows[k][ElectorsNameVernacular])
        pool_eng == names_of(df_2002[1], ElectorsName)
        pool_vern == names_of(df_2002[1], ElectorsNameVernacular)
        search(label, q, pool) ==
            [label |-> label, res |-> find_best_match(q, pool, range(Len(pool)))]
    IN  (IF eng # <<>>
         THEN <<search("English-English", eng, pool_eng),
                search("English-Vernacular", eng, pool_vern)>>
         ELSE <<>>)
        \o
        (IF vern # <<>>
         THEN <<search("Vernacular-Vernacular", vern, pool_vern),
                search("Vernacular-English", vern, pool_eng)>>
         ELSE <<>>)

\* The positions in DirectedSearches(k) of the searches with the maximum score.
MaxSearches(k) ==
    LET s == DirectedSearches(k)
    IN  {p \in 1..Len(s) : \A q \in 1..Len(s) : s[q].res.score <= s[p].res.score}

\* The earliest search of DirectedSearches(k) that reaches the maximum score.
EarliestMaxSearch(k) == DirectedSearches(k)[SetMin(MaxSearches(k))]

\* The MatchRecord among recs of the 2025 row at position k.
RecordOf(recs, k) ==
    recs[CHOOSE p \in 1..Len(recs) : recs[p].index_2025 = df_2025[1].index[k]]

\* C12: for each 2025 record that is not empty, the winning (score, 2002
\* index, match type) is that of the earliest search, in the order
\* English-English, English-Vernacular, Vernacular-Vernacular,
\* Vernacular-English, that reaches the maximum score over the searches that
\* run: the MatchRecord of the record carries that score, 2002 row and match
\* type, and a record without a MatchRecord is one whose winner fails the
\* threshold test.
C12_EarliestMaximumSearchWins ==
    pc = "comparing" =>
        \A k \in 1..loop[1].i :
           ~EmptyRecord(k) =>
              LET w == EarliestMaxSearch(k)
              IN  IF Emitted(loop[1].duplicates, k)
                  THEN LET rec == RecordOf(loop[1].duplicates, k)
                       IN  /\ rec.similarity_score = w.res.score
                           /\ rec.match_type = w.label
                           /\ w.res.index # <<>>
                           /\ rec.index_2002 = df_2002[1].index[w.res.index[1] + 1]
                  ELSE \/ w.res.score < similarity_threshold * ScoreUnit
                       \/ w.res.index = <<>>

\* A record for which the English-English and the Vernacular-Vernacular
\* search both reach the maximum was emitted with the English-English result.
C12_Witness ==
    /\ pc = "comparing"
    /\ loop[1].i >= 1
    /\ Emitted(loop[1].duplicates, 1)
    /\ Len(DirectedSearches(1)) = 4
    /\ {1, 3} \subseteq MaxSearches(1)
    /\ DirectedSearches(1)[1].res.index # DirectedSearches(1)[3].res.index
    /\ RecordOf(loop[1].duplicates, 1).match_type = "English-English"

\* The identifier C13 gives the MatchRecord at position p of recs: the
\* trimmed text of the key of its 2025 row, or p when the row has no key.
KeyIdentifier(recs, p) ==
    LET d25 == df_2025[1]
        k == CHOOSE j \in 1..Len(d25.rows) : d25.index[j] = recs[p].index_2025
        cell == d25.rows[k][primary_key_column[1]]
    IN  IF cell.isna THEN IntId(p) ELSE StrId(strip(cell.text))

\* C13: when a primary-key column was detected, the duplicate identifier of
\* each MatchRecord is the trimmed string of the value its 2025 record has in
\* that column, or, when that value is missing, 1 + the number of MatchRecords
\* emitted before it; and the table export_results writes holds the same
\* records with the identifiers compare_names gave them.
C13_KeyIdentifiersKept ==
    primary_key_column # <<>> =>
        /\ pc = "comparing" =>
              \A p \in 1..Len(loop[1].duplicates) :
                 loop[1].duplicates[p].duplicate_id
                     = KeyIdentifier(loop[1].duplicates, p)
        /\ exported # <<>> =>
              /\ Len(exported[1].duplicates) = Len(duplicates)
              /\ \A p \in 1..Len(duplicates) :
                    /\ duplicates[p].duplicate_id = KeyIdentifier(duplicates, p)
                    /\ \E a \in 1..Len(duplicates) :
                          exported[1].duplicates[a] = duplicates[p]

\* A table exported in another order than the discovery order, in which a
\* record without a key carries the counter value 2 and another the trimmed
\* text of a padded key.
C13_Witness ==
    /\ primary_key_column # <<>>
    /\ exported # <<>>
    /\ Len(duplicates) = 3
    /\ exported[1].duplicates[1] = duplicates[3]
    /\ duplicates[2].duplicate_id = IntId(2)
    /\ duplicates[3].similarity_score > duplicates[2].similarity_score
    /\ \E p \in {1, 3} :
          /\ duplicates[p].duplicate_id.kind = "str"
          /\ duplicates[p].duplicate_id.text
                # df_2025[1].rows[CHOOSE j \in 1..Len(df_2025[1].rows) :
                      df_2025[1].index[j] = duplicates[p].index_2025]
                     [primary_key_column[1]].text

\* What the loop of compare_names has in hand when it starts on a comparator
\* whose counters are at zero.
FreshLoop ==
    [duplicates |-> <<>>, sequential_id |-> 1,
     stats |-> [total_2025 |-> 0, total_2002 |-> 0, exact_matches |-> 0,
                fuzzy_matches |-> 0, no_matches |-> 0]]

\* The loop of compare_names over the 2025 rows at positions a..b, against
\* the whole 2002 sheet, continued from loc.
RECURSIVE RunRange(_, _, _)
RunRange(a, b, loc) ==
    IF a > b THEN loc
    ELSE RunRange(a + 1, b,
                  compare_record(df_2025[1], df_2002[1], primary_key_column,
                                 similarity_threshold, a, loc))

\* The results of two runs, one after the other.
Merged(x, y) ==
    [duplicates |-> x.duplicates \o y.duplicates,
     exact_matches |-> x.stats.exact_matches + y.exact_matches,
     fuzzy_matches |-> x.stats.fuzzy_matches + y.fuzzy_matches,
     no_matches |-> x.stats.no_matches + y.no_matches]

\* The 2025 rows from position a on, cut after each position of cuts into
\* contiguous ranges; every range is compared on its own, from FreshLoop, and
\* the results are concatenated in range order.
RECURSIVE PartitionedRun(_, _)
PartitionedRun(a, cuts) ==
    LET n == Len(df_2025[1].rows)
        later == {c \in cuts : c >= a}
        b == IF later = {} THEN n ELSE SetMin(later)
    IN  IF a > n
        THEN [duplicates |-> <<>>, exact_matches |-> 0, fuzzy_matches |-> 0,
              no_matches |-> 0]
        ELSE Merged(RunRange(a, b, FreshLoop), PartitionedRun(b + 1, cuts))

\* The ways to cut the 2025 rows into contiguous ranges.
Cuts == SUBSET (1..Len(df_2025[1].rows) - 1)

\* One sequential run over the whole 2025 sheet has ended.
OneRunDone == pc = "idle" /\ runs = 1

SameCounters(part) ==
    /\ part.exact_matches = stats.exact_matches
    /\ part.fuzzy_matches = stats.fuzzy_matches
    /\ part.no_matches = stats.no_matches

\* C14 as claimed: however the 2025 sheet is cut into contiguous ranges,
\* comparing each range on its own against the same 2002 sheet and
\* concatenating the results gives the MatchRecords of one sequential run,
\* the duplicate identifier included, and the same counters.
C14_RangesGiveSameRecords ==
    OneRunDone =>
        \A cuts \in Cuts :
           \A part \in {PartitionedRun(1, cuts)} :
               /\ part.duplicates = duplicates
               /\ SameCounters(part)

SameButIdentifier(a, b) ==
    [a EXCEPT !.duplicate_id = IntId(0)] = [b EXCEPT !.duplicate_id = IntId(0)]

\* C14 as amended: the concatenated results have the same counters and the
\* same MatchRecords in every field but the duplicate identifier; an
\* identifier taken from the primary-key column is the same too, and a
\* sequential one is a counter value in both.
C14_RangesGiveSameRecordsButCounter ==
    OneRunDone =>
        \A cuts \in Cuts :
           \A part \in {PartitionedRun(1, cuts)} :
               /\ SameCounters(part)
               /\ Len(part.duplicates) = Len(duplicates)
               /\ \A p \in 1..Len(duplicates) :
                     /\ SameButIdentifier(part.duplicates[p], duplicates[p])
                     /\ part.duplicates[p].duplicate_id.kind
                            = duplicates[p].duplicate_id.kind
                     /\ duplicates[p].duplicate_id.kind = "str" =>
                            part.duplicates[p].duplicate_id
                                = duplicates[p].duplicate_id

\* A run with a detected key that emitted a record with a key value and then
\* a record without one, whose counter value restarts when the sheet is cut
\* between the two.
C14_Witness ==
    /\ OneRunDone
    /\ primary_key_column # <<>>
    /\ Len(duplicates) >= 2
    /\ duplicates[1].duplicate_id.kind = "str"
    /\ duplicates[2].duplicate_id = IntId(2)
    /\ \E cuts \in Cuts :
          PartitionedRun(1, cuts).duplicates[2].duplicate_id = IntId(1)

\* compare_names has been entered.
CompareReached == pc = "comparing" \/ runs >= 1

\* C15: in main and in upload_file, compare_names and export_results are
\* reached only after load_excel_sheets has returned True in that run,
\* export_results only after compare_names has returned, and once
\* load_excel_sheets has returned False no step of either is ever taken: the
\* caller has left.
C15_CompareAndExportAfterLoad ==
    /\ [](/\ CompareReached => load_result = <<TRUE>>
          /\ exported # <<>> => (load_result = <<TRUE>> /\ runs >= 1)
          /\ load_result = <<FALSE>> => pc = "exit")
    /\ [][load_result = <<FALSE>> =>
             UNCHANGED <<load_result, pc, loop, runs, duplicates, stats, exported>>
       ]_vars

\* upload_file has exported the results of its comparison.
C15_Witness ==
    /\ entry = "upload_file"
    /\ load_result = <<TRUE>>
    /\ runs = 1
    /\ exported # <<>>

\* C16: in every state after compare_names has returned, however many times
\* it was called on the comparator, duplicates holds exact_matches +
\* fuzzy_matches MatchRecords, exact_matches of them with is_exact_match
\* true, and every MatchRecord has a score of at least max(1, threshold) and
\* a 2002 index that is the index of a row of the 2002 sheet.
C16_RecordsMatchCounters ==
    Compared =>
        /\ Len(duplicates) = stats.exact_matches + stats.fuzzy_matches
        /\ stats.exact_matches
              = Cardinality({p \in 1..Len(duplicates) : duplicates[p].is_exact_match})
        /\ \A p \in 1..Len(duplicates) :
              /\ duplicates[p].similarity_score
                    >= Max(1, similarity_threshold) * ScoreUnit
              /\ duplicates[p].index_2002 \in Range(df_2002[1].index)

=============================================================================
